---- MODULE Spec2Model ----
(***************************************************************************)
(* A model of folio: an HTTP file store (src/src/files.rs), anonymous      *)
(* uploads (src/src/uploads.rs), the path resolver (src/src/config.rs) and *)
(* the file-expiration workflow with its deletion activity                 *)
(* (src/src/workflow.rs), run by the worker thread of src/src/main.rs.     *)
(*                                                                         *)
(* A path is a sequence of components, as std::path::Path::components()    *)
(* yields them; a name is a sequence of one-character strings, so that     *)
(* file_name can append an extension to an id.                             *)
(***************************************************************************)
EXTENDS Integers, Sequences, FiniteSets, TLC

\* ------------------------------------------------------------------ bounds
\* Longest untrusted relative path (in components) fed to the resolver.
MaxLen == 3
\* Longest id asked of the id generator (IdSpec).
MaxIdLen == 2
\* Worker-process crashes in one behaviour.
MaxCrashes == 1
\* Longest time-to-live, in clock ticks.
MaxTtl == 1
\* Activity attempts counted per workflow execution (the count saturates).
MaxAttemptsCounted == 2

\* ------------------------------------------------------- program constants
\* uploads.rs:63  UploadId::new(8)
UploadIdSize == 8

\* ------------------------------------------------------------- components
\* std::path::Component, config.rs:2
Normal(n) == [kind |-> "Normal", name |-> n]
CurDir == [kind |-> "CurDir", name |-> <<>>]
ParentDir == [kind |-> "ParentDir", name |-> <<>>]
RootDir == [kind |-> "RootDir", name |-> <<>>]
Prefix == [kind |-> "Prefix", name |-> <<>>]

\* Text of a name: a sequence of characters.
NameProject == <<"p", "r", "j">>
NameUploads == <<"u", "p", "l">>
NameEtc == <<"e", "t", "c">>

\* PathBuf::is_absolute on Unix: the path has a root.
is_absolute(p) ==
    /\ Len(p) > 0
    /\ \/ p[1].kind = "RootDir"
       \/ (p[1].kind = "Prefix" /\ Len(p) > 1 /\ p[2].kind = "RootDir")

\* PathBuf::push / Path::join: an absolute argument replaces the receiver.
join(p, q) == IF is_absolute(q) THEN q ELSE p \o q

\* env!("CARGO_MANIFEST_DIR"), config.rs:15
CARGO_MANIFEST_DIR == <<RootDir, Normal(NameProject)>>
\* Folio::default().uploads_path = "./uploads", config.rs:36
uploads_path == <<CurDir, Normal(NameUploads)>>
\* config.rs:15
base == join(CARGO_MANIFEST_DIR, uploads_path)

\* config.rs:18-26: the fold that keeps only Component::Normal.
RECURSIVE normalized(_)
normalized(relative_path) ==
    IF relative_path = <<>> THEN <<>>
    ELSE LET component == relative_path[Len(relative_path)]
             path == normalized(SubSeq(relative_path, 1, Len(relative_path) - 1))
         IN  IF component.kind = "Normal" THEN join(path, <<component>>) ELSE path

\* A resolver that forgets to drop ParentDir (the bug the fold prevents).
RECURSIVE normalized_keeps_parent(_)
normalized_keeps_parent(relative_path) ==
    IF relative_path = <<>> THEN <<>>
    ELSE LET component == relative_path[Len(relative_path)]
             path == normalized_keeps_parent(SubSeq(relative_path, 1, Len(relative_path) - 1))
         IN  IF component.kind \in {"Normal", "ParentDir"}
             THEN join(path, <<component>>) ELSE path

build_full_upload_path_keeps_parent(relative_path) ==
    join(base, normalized_keeps_parent(relative_path))

\* A resolver that silently discards the last named component.
build_full_upload_path_drops_last(relative_path) ==
    LET n == normalized(relative_path)
    IN  join(base, IF n = <<>> THEN n ELSE SubSeq(n, 1, Len(n) - 1))

\* A resolver that steps back over the preceding name on "..".
RECURSIVE normalized_pops_parent(_)
normalized_pops_parent(relative_path) ==
    IF relative_path = <<>> THEN <<>>
    ELSE LET component == relative_path[Len(relative_path)]
             path == normalized_pops_parent(SubSeq(relative_path, 1, Len(relative_path) - 1))
         IN  IF component.kind = "Normal" THEN join(path, <<component>>)
             ELSE IF component.kind = "ParentDir" /\ path # <<>>
             THEN SubSeq(path, 1, Len(path) - 1)
             ELSE path

build_full_upload_path_pops_parent(relative_path) ==
    join(base, normalized_pops_parent(relative_path))

\* config.rs:14-29
build_full_upload_path(relative_path) ==
    join(base, normalized(relative_path))

\* What the operating system makes of a path: the names from the filesystem
\* root down, '.' skipped, '..' stepping one name up (the root is its own
\* parent), a root or prefix starting over.
RECURSIVE Resolve(_)
Resolve(p) ==
    IF p = <<>> THEN <<>>
    ELSE LET c == p[Len(p)]
             up == Resolve(SubSeq(p, 1, Len(p) - 1))
         IN  CASE c.kind = "Normal" -> Append(up, c.name)
               [] c.kind = "CurDir" -> up
               [] c.kind = "ParentDir" ->
                    IF up = <<>> THEN up ELSE SubSeq(up, 1, Len(up) - 1)
               [] OTHER -> <<>>

IsPrefixOf(s, t) == Len(s) <= Len(t) /\ SubSeq(t, 1, Len(s)) = s

\* The storage root: where base points.
StorageRoot == Resolve(base)
\* p points at the storage root or below it.
UnderRoot(p) == IsPrefixOf(StorageRoot, Resolve(p))
\* p points strictly below the storage root.
StrictlyUnderRoot(p) == UnderRoot(p) /\ Resolve(p) # StorageRoot

\* --------------------------------------------------------------- uploads
\* Option<&str>
None == [some |-> FALSE, val |-> <<>>]
Some(x) == [some |-> TRUE, val |-> x]

\* uploads.rs:22
BASE62 ==
    <<"0", "1", "2", "3", "4", "5", "6", "7", "8", "9", "A", "B", "C",
      "D", "E", "F", "G", "H", "I", "J", "K", "L", "M", "N", "O", "P",
      "Q", "R", "S", "T", "U", "V", "W", "X", "Y", "Z", "a", "b", "c",
      "d", "e", "f", "g", "h", "i", "j", "k", "l", "m", "n", "o", "p",
      "q", "r", "s", "t", "u", "v", "w", "x", "y", "z">>

\* A generator that draws one symbol too few.
UploadId_new_one_short(sz, draws) ==
    [i \in 1..(sz - 1) |-> BASE62[draws[i] + 1]]

\* uploads.rs:21-30: UploadId::new(size), given what rng.random_range(
\* 0..BASE62.len()) returns on each of its size calls.
UploadId_new(sz, draws) ==
    [i \in 1..sz |-> BASE62[draws[i] + 1]]

\* Two of the ids rand::rng() can draw in UploadId::new(8), uploads.rs:21-30.
IdA == [i \in 1..UploadIdSize |-> "a"]
IdB == [i \in 1..UploadIdSize |-> "B"]
CandidateIds == {IdA, IdB}
\* ContentType::extension() of the uploaded part, uploads.rs:55-58.
Txt == <<"t", "x", "t">>
Extensions == {None, Some(Txt)}

\* uploads.rs:33-35
file_name(id, extension) ==
    IF extension.some THEN id \o <<".">> \o extension.val ELSE id

\* ------------------------------------------------------------ filesystem
Contents == {"c1", "c2"}
\* Relative paths the requests of the model name (ValidatedPath holds a
\* PathBuf of normal components, files.rs:16).
ReqPaths == {<<Normal(IdA)>>, <<Normal(IdA), Normal(IdB)>>}
UploadPaths == {<<Normal(file_name(id, e))>> : id \in CandidateIds, e \in Extensions}
\* FileExpirationInput.path values handed to the workflow, workflow.rs:9-12.
TaskPaths == {build_full_upload_path(<<Normal(IdA)>>),
              build_full_upload_path(<<Normal(file_name(IdB, Some(Txt)))>>)}

Prefixes(p) == {SubSeq(p, 1, n) : n \in 0..Len(p)}
\* Every place of the filesystem the model can touch: the storage root and
\* what lies below it.
FsKeys ==
    UNION {Prefixes(Resolve(build_full_upload_path(r))) : r \in ReqPaths \cup UploadPaths}
        \ (Prefixes(StorageRoot) \ {StorageRoot})

VARIABLES
    relative_path,  \* resolver input under test (PathSpec)
    resolved,       \* resolver output for relative_path, or NotResolved
    fs,             \* filesystem: place -> "absent" | "dir" | content of a file
    req,            \* per handler slot: the request being served, or Idle
    last,           \* what the step just taken answered or reported
    wf,             \* per workflow execution: the expiration task
    workerUp,       \* the process (Rocket and the Temporal worker) is running
    crashes,        \* crashes so far
    size,           \* length asked of the id generator (IdSpec)
    id              \* the id it returned, or NoId

vars == <<relative_path, resolved, fs, req, last, wf, workerUp, crashes, size, id>>
pathVars == <<relative_path, resolved>>
serverVars == <<fs, req, last, wf, workerUp, crashes>>
idVars == <<size, id>>

NotResolved == <<[kind |-> "NotResolved", name |-> <<>>]>>
NoId == <<"NoId">>

\* What is at place k: the ancestors of the storage root are directories.
Node(k) ==
    IF k \in DOMAIN fs THEN fs[k]
    ELSE IF IsPrefixOf(k, StorageRoot) THEN "dir" ELSE "absent"

\* Path::exists
exists(p) == Node(Resolve(p)) # "absent"
\* Path::is_file
is_file(p) == Node(Resolve(p)) \in Contents
\* Path::parent of a resolved place
parent(k) == SubSeq(k, 1, Len(k) - 1)

\* std::fs::create_dir_all(dir): fails when dir or one of its ancestors is a
\* regular file, else makes every missing directory down to dir.
create_dir_all_ok(k) == \A a \in Prefixes(k) : Node(a) \notin Contents
create_dir_all(f, k) ==
    [x \in DOMAIN f |-> IF x \in Prefixes(k) /\ f[x] = "absent" THEN "dir" ELSE f[x]]

\* A handler that never makes the parent directories.
ensure_parent_dirs_makes_none(f, k) == f

\* files.rs:52-61
ensure_parent_dirs_ok(k) == create_dir_all_ok(parent(k))
ensure_parent_dirs(f, k) == create_dir_all(f, parent(k))

\* TempFile::copy_to / move_copy_to onto place k of filesystem f: needs the
\* parent directory and fails on a directory; replaces the content of a file.
copy_to_ok(f, k) ==
    /\ k \in DOMAIN f
    /\ f[k] # "dir"
    /\ (IF parent(k) \in DOMAIN f THEN f[parent(k)] ELSE Node(parent(k))) = "dir"
copy_to(f, k, content) == [f EXCEPT ![k] = content]

\* std::fs::remove_file: removes a regular file, fails on anything else.
remove_file_ok(k) == Node(k) \in Contents
remove_file(f, k) == [f EXCEPT ![k] = "absent"]

\* ----------------------------------------------------------------- state
\* Handler tasks the server runs side by side, and the workflow execution
\* followed.
Slots == {1, 2}
TaskIds == {"wf1"}
Ttls == 0..MaxTtl

\* Option<Duration>: the ?expire= query parameter, uploads.rs:50
NoExpire == [some |-> FALSE, val |-> 0]
Expire(n) == [some |-> TRUE, val |-> n]
Expires == {NoExpire} \cup {Expire(n) : n \in Ttls}

Idle ==
    [op |-> "idle", pc |-> "idle", path |-> <<>>, content |-> "", extension |-> None,
     expire |-> NoExpire, file_exists |-> FALSE]
NoEvent ==
    [op |-> "none", key |-> <<>>, status |-> 0, content |-> "", expire |-> NoExpire,
     over |-> "none"]
Response(op, k, status, content, expire) ==
    [op |-> op, key |-> k, status |-> status, content |-> content, expire |-> expire,
     over |-> "none"]
\* The answer to a write, with what stood at the place before the write.
Replacing(response, before) == [response EXCEPT !.over = before]
NoTask ==
    [state |-> "none", path |-> <<>>, ttl |-> 0, remaining |-> 0, waited |-> 0,
     result |-> "none", removed |-> 0, attempt |-> 0]

ServerInit ==
    /\ fs = [k \in FsKeys |-> IF k = StorageRoot THEN "dir" ELSE "absent"]
    /\ req = [r \in Slots |-> Idle]
    /\ last = NoEvent
    /\ wf = [t \in TaskIds |-> NoTask]
    /\ workerUp = TRUE
    /\ crashes = 0

Init ==
    /\ relative_path = <<>>
    /\ resolved = NotResolved
    /\ size = 0
    /\ id = NoId
    /\ ServerInit

\* A request is taken up by the first handler task that is free.
Accepting(r) ==
    /\ workerUp
    /\ req[r] = Idle
    /\ \A q \in Slots : q < r => req[q] # Idle

\* ------------------------------------------------------- POST /files/<path>
\* A create that answers 409 only for a directory, and overwrites a file.
create_file_check_overwrites(r, path, content) ==
    LET full_path == build_full_upload_path(path)
    IN  /\ Accepting(r)
        /\ IF exists(full_path) /\ ~is_file(full_path)
           THEN /\ last' = Response("create", Resolve(full_path), 409, content, NoExpire)
                /\ UNCHANGED req
           ELSE /\ req' = [req EXCEPT ![r] =
                        [Idle EXCEPT !.op = "create", !.pc = "write",
                                     !.path = path, !.content = content]]
                /\ last' = NoEvent
        /\ UNCHANGED <<fs, wf, workerUp, crashes, pathVars, idVars>>

\* files.rs:69-79: resolve the path, answer 409 when something exists there.
create_file_check(r, path, content) ==
    LET full_path == build_full_upload_path(path)
    IN  /\ Accepting(r)
        /\ IF exists(full_path)
           THEN /\ last' = Response("create", Resolve(full_path), 409, content, NoExpire)
                /\ UNCHANGED req
           ELSE /\ req' = [req EXCEPT ![r] =
                        [Idle EXCEPT !.op = "create", !.pc = "write",
                                     !.path = path, !.content = content]]
                /\ last' = NoEvent
        /\ UNCHANGED <<fs, wf, workerUp, crashes, pathVars, idVars>>

\* A create that writes only where nothing is, as an exclusive create would,
\* and answers 409 otherwise.
create_file_write_exclusive(r) ==
    LET k == Resolve(build_full_upload_path(req[r].path))
        made == ensure_parent_dirs(fs, k)
    IN  /\ workerUp
        /\ req[r].op = "create" /\ req[r].pc = "write"
        /\ req' = [req EXCEPT ![r] = Idle]
        /\ IF ~ensure_parent_dirs_ok(k)
           THEN /\ fs' = fs
                /\ last' = Response("create", k, 500, req[r].content, NoExpire)
           ELSE IF ~copy_to_ok(made, k)
           THEN /\ fs' = made
                /\ last' = Response("create", k, 500, req[r].content, NoExpire)
           ELSE IF Node(k) # "absent"
           THEN /\ fs' = made
                /\ last' = Response("create", k, 409, req[r].content, NoExpire)
           ELSE /\ fs' = copy_to(made, k, req[r].content)
                /\ last' = Replacing(Response("create", k, 201, req[r].content, NoExpire),
                                     Node(k))
        /\ UNCHANGED <<wf, workerUp, crashes, pathVars, idVars>>

\* files.rs:81-95: make the parent directories, write, answer 201; 500 when
\* either fails.
create_file_write(r) ==
    LET k == Resolve(build_full_upload_path(req[r].path))
        made == ensure_parent_dirs(fs, k)
    IN  /\ workerUp
        /\ req[r].op = "create" /\ req[r].pc = "write"
        /\ req' = [req EXCEPT ![r] = Idle]
        /\ IF ~ensure_parent_dirs_ok(k)
           THEN /\ fs' = fs
                /\ last' = Response("create", k, 500, req[r].content, NoExpire)
           ELSE IF ~copy_to_ok(made, k)
           THEN /\ fs' = made
                /\ last' = Response("create", k, 500, req[r].content, NoExpire)
           ELSE /\ fs' = copy_to(made, k, req[r].content)
                /\ last' = Replacing(Response("create", k, 201, req[r].content, NoExpire),
                                     Node(k))
        /\ UNCHANGED <<wf, workerUp, crashes, pathVars, idVars>>

\* -------------------------------------------------------- PUT /files/<path>
\* files.rs:104-105
upsert_file_check(r, path, content) ==
    LET full_path == build_full_upload_path(path)
    IN  /\ Accepting(r)
        /\ req' = [req EXCEPT ![r] =
                [Idle EXCEPT !.op = "upsert", !.pc = "write", !.path = path,
                             !.content = content, !.file_exists = exists(full_path)]]
        /\ last' = NoEvent
        /\ UNCHANGED <<fs, wf, workerUp, crashes, pathVars, idVars>>

\* An upsert that leaves a file that is already there as it is.
upsert_file_write_keeps_present(r) ==
    LET k == Resolve(build_full_upload_path(req[r].path))
        made == ensure_parent_dirs(fs, k)
    IN  /\ workerUp
        /\ req[r].op = "upsert" /\ req[r].pc = "write"
        /\ req' = [req EXCEPT ![r] = Idle]
        /\ IF ~ensure_parent_dirs_ok(k)
           THEN /\ fs' = fs
                /\ last' = Response("upsert", k, 500, req[r].content, NoExpire)
           ELSE IF ~copy_to_ok(made, k)
           THEN /\ fs' = made
                /\ last' = Response("upsert", k, 500, req[r].content, NoExpire)
           ELSE /\ fs' = IF Node(k) \in Contents THEN made
                         ELSE copy_to(made, k, req[r].content)
                /\ last' = Replacing(Response("upsert", k,
                                              IF req[r].file_exists THEN 200 ELSE 201,
                                              req[r].content, NoExpire),
                                     Node(k))
        /\ UNCHANGED <<wf, workerUp, crashes, pathVars, idVars>>

\* files.rs:107-130
upsert_file_write(r) ==
    LET k == Resolve(build_full_upload_path(req[r].path))
        made == ensure_parent_dirs(fs, k)
    IN  /\ workerUp
        /\ req[r].op = "upsert" /\ req[r].pc = "write"
        /\ req' = [req EXCEPT ![r] = Idle]
        /\ IF ~ensure_parent_dirs_ok(k)
           THEN /\ fs' = fs
                /\ last' = Response("upsert", k, 500, req[r].content, NoExpire)
           ELSE IF ~copy_to_ok(made, k)
           THEN /\ fs' = made
                /\ last' = Response("upsert", k, 500, req[r].content, NoExpire)
           ELSE /\ fs' = copy_to(made, k, req[r].content)
                /\ last' = Replacing(Response("upsert", k,
                                              IF req[r].file_exists THEN 200 ELSE 201,
                                              req[r].content, NoExpire),
                                     Node(k))
        /\ UNCHANGED <<wf, workerUp, crashes, pathVars, idVars>>

\* ----------------------------------------------------- DELETE /files/<path>
\* A delete that answers 200 when nothing is at the path.
delete_file_check_idempotent(r, path) ==
    LET full_path == build_full_upload_path(path)
    IN  /\ Accepting(r)
        /\ IF ~exists(full_path)
           THEN /\ last' = Response("delete", Resolve(full_path), 200, "", NoExpire)
                /\ UNCHANGED req
           ELSE /\ req' = [req EXCEPT ![r] =
                        [Idle EXCEPT !.op = "delete", !.pc = "is_file", !.path = path]]
                /\ last' = NoEvent
        /\ UNCHANGED <<fs, wf, workerUp, crashes, pathVars, idVars>>

\* files.rs:135-145: the existence check.
delete_file_check(r, path) ==
    LET full_path == build_full_upload_path(path)
    IN  /\ Accepting(r)
        /\ IF ~exists(full_path)
           THEN /\ last' = Response("delete", Resolve(full_path), 404, "", NoExpire)
                /\ UNCHANGED req
           ELSE /\ req' = [req EXCEPT ![r] =
                        [Idle EXCEPT !.op = "delete", !.pc = "is_file", !.path = path]]
                /\ last' = NoEvent
        /\ UNCHANGED <<fs, wf, workerUp, crashes, pathVars, idVars>>

\* A delete whose second check answers 404 for whatever is not a file.
delete_file_is_file_not_found(r) ==
    LET full_path == build_full_upload_path(req[r].path)
    IN  /\ workerUp
        /\ req[r].op = "delete" /\ req[r].pc = "is_file"
        /\ IF ~is_file(full_path)
           THEN /\ last' = Response("delete", Resolve(full_path), 404, "", NoExpire)
                /\ req' = [req EXCEPT ![r] = Idle]
           ELSE /\ req' = [req EXCEPT ![r].pc = "remove"]
                /\ last' = NoEvent
        /\ UNCHANGED <<fs, wf, workerUp, crashes, pathVars, idVars>>

\* A delete that clears away the directory it refuses to delete.
delete_file_is_file_removes_directory(r) ==
    LET full_path == build_full_upload_path(req[r].path)
    IN  /\ workerUp
        /\ req[r].op = "delete" /\ req[r].pc = "is_file"
        /\ IF ~is_file(full_path)
           THEN /\ last' = Response("delete", Resolve(full_path), 400, "", NoExpire)
                /\ req' = [req EXCEPT ![r] = Idle]
                /\ fs' = [fs EXCEPT ![Resolve(full_path)] = "absent"]
           ELSE /\ req' = [req EXCEPT ![r].pc = "remove"]
                /\ last' = NoEvent
                /\ fs' = fs
        /\ UNCHANGED <<wf, workerUp, crashes, pathVars, idVars>>

\* files.rs:147-155: the second look at the path, a system call of its own
\* after the one of the existence check.
delete_file_is_file(r) ==
    LET full_path == build_full_upload_path(req[r].path)
    IN  /\ workerUp
        /\ req[r].op = "delete" /\ req[r].pc = "is_file"
        /\ IF ~is_file(full_path)
           THEN /\ last' = Response("delete", Resolve(full_path), 400, "", NoExpire)
                /\ req' = [req EXCEPT ![r] = Idle]
           ELSE /\ req' = [req EXCEPT ![r].pc = "remove"]
                /\ last' = NoEvent
        /\ UNCHANGED <<fs, wf, workerUp, crashes, pathVars, idVars>>

\* files.rs:157-169
delete_file_remove(r) ==
    LET k == Resolve(build_full_upload_path(req[r].path))
    IN  /\ workerUp
        /\ req[r].op = "delete" /\ req[r].pc = "remove"
        /\ req' = [req EXCEPT ![r] = Idle]
        /\ IF remove_file_ok(k)
           THEN /\ fs' = remove_file(fs, k)
                /\ last' = Response("delete", k, 200, "", NoExpire)
           ELSE /\ fs' = fs
                /\ last' = Response("delete", k, 500, "", NoExpire)
        /\ UNCHANGED <<wf, workerUp, crashes, pathVars, idVars>>

\* ------------------------------------------- the <path..> guard of /files
\* A request path as Rocket hands it to the guard: its decoded segments, each
\* the text of a name.
DotDot == <<".", ".">>
NameA == <<"a">>
NameB == <<"b">>
NameC == <<"c">>
NameTest == <<"t", ".", "x">>
NameEscape == <<"e">>
NameDotted == <<"a", ".", ".", "b">>
NameHidden == <<".", "h">>
\* Result<PathBuf, _>
Ok(x) == [ok |-> TRUE, val |-> x]
Err == [ok |-> FALSE, val |-> <<>>]

\* A conversion that skips a ".." segment without stepping back.
RECURSIVE PathBuf_from_segments_skips_parent(_)
PathBuf_from_segments_skips_parent(segments) ==
    IF segments = <<>> THEN Ok(<<>>)
    ELSE LET buf == PathBuf_from_segments_skips_parent(SubSeq(segments, 1, Len(segments) - 1))
             segment == segments[Len(segments)]
         IN  IF ~buf.ok THEN buf
             ELSE IF segment = DotDot THEN buf
             ELSE IF segment[1] = "." THEN Err
             ELSE Ok(Append(buf.val, Normal(segment)))

\* files.rs:32: Rocket's PathBuf::from_segments walks the segments in order:
\* ".." pops the last component pushed, a segment that starts with "." is
\* an error, any other segment is pushed (the test at files.rs:369-388 shows
\* "/files/../escape.txt" arriving as "escape.txt"). Its errors for
\* segments that start with "*" or end with ":", ">" or "<" are left out.
RECURSIVE PathBuf_from_segments(_)
PathBuf_from_segments(segments) ==
    IF segments = <<>> THEN Ok(<<>>)
    ELSE LET buf == PathBuf_from_segments(SubSeq(segments, 1, Len(segments) - 1))
             segment == segments[Len(segments)]
         IN  IF ~buf.ok THEN buf
             ELSE IF segment = DotDot
             THEN Ok(SubSeq(buf.val, 1, IF buf.val = <<>> THEN 0 ELSE Len(buf.val) - 1))
             ELSE IF segment[1] = "." THEN Err
             ELSE Ok(Append(buf.val, Normal(segment)))

\* files.rs:34: path.to_string_lossy().contains(".."); the components are
\* joined by "/", so the two dots lie within one name.
contains_dotdot(path) ==
    \E i \in 1..Len(path) :
        \E j \in 1..(Len(path[i].name) - 1) :
            path[i].name[j] = "." /\ path[i].name[j + 1] = "."

\* files.rs:29-40
from_segments(segments) ==
    LET path == PathBuf_from_segments(segments)
    IN  IF ~path.ok THEN Err
        ELSE IF contains_dotdot(path.val) THEN Err
        ELSE Ok(path.val)

\* A request whose guard failed is forwarded by Rocket; main.rs:48-61 mounts
\* no other route for POST, PUT or DELETE under /files, so Rocket answers it
\* with the status of the forward, 404 or 422 by its version. No handler
\* runs.
GuardFailureStatuses == {404, 422}
guard_failed(r, op) ==
    /\ Accepting(r)
    /\ \E status \in GuardFailureStatuses :
         last' = Response(op, <<>>, status, "", NoExpire)
    /\ UNCHANGED <<fs, req, wf, workerUp, crashes, pathVars, idVars>>

\* files.rs:63-68, 98-103, 133-134: the route with its guard, then the
\* handler.
request_create(r, segments, content) ==
    LET path == from_segments(segments)
    IN  IF path.ok THEN create_file_check(r, path.val, content)
        ELSE guard_failed(r, "create")
request_upsert(r, segments, content) ==
    LET path == from_segments(segments)
    IN  IF path.ok THEN upsert_file_check(r, path.val, content)
        ELSE guard_failed(r, "upsert")
request_delete(r, segments) ==
    LET path == from_segments(segments)
    IN  IF path.ok THEN delete_file_check(r, path.val)
        ELSE guard_failed(r, "delete")

\* ------------------------------------------------------- POST /uploads
\* uploads.rs:47-59: the request, its content type's extension and ?expire=
\* (which the handler only logs, uploads.rs:52).
upload_file_start(r, extension, content, expire) ==
    /\ Accepting(r)
    /\ req' = [req EXCEPT ![r] =
            [Idle EXCEPT !.op = "upload", !.pc = "loop", !.extension = extension,
                         !.content = content, !.expire = expire]]
    /\ last' = NoEvent
    /\ UNCHANGED <<fs, wf, workerUp, crashes, pathVars, idVars>>

\* A loop that breaks on its first candidate whether or not it exists.
upload_file_loop_takes_first(r) ==
    /\ workerUp
    /\ req[r].op = "upload" /\ req[r].pc = "loop"
    /\ \E candidate \in CandidateIds :
         LET file_path == <<Normal(file_name(candidate, req[r].extension))>>
         IN  /\ req' = [req EXCEPT ![r].pc = "persist", ![r].path = file_path]
             /\ last' = NoEvent
             /\ UNCHANGED <<fs, wf, workerUp, crashes, pathVars, idVars>>

\* uploads.rs:62-69: one turn of the loop, which draws a candidate and computes
\* its path; a candidate that exists is dropped and the loop turns again.
upload_file_loop(r) ==
    /\ workerUp
    /\ req[r].op = "upload" /\ req[r].pc = "loop"
    /\ \E candidate \in CandidateIds :
         LET file_path == <<Normal(file_name(candidate, req[r].extension))>>
         IN  /\ req' = [req EXCEPT
                        ![r].pc = IF ~exists(build_full_upload_path(file_path))
                                  THEN "persist" ELSE "loop",
                        ![r].path = file_path]
             /\ last' = NoEvent
             /\ UNCHANGED <<fs, wf, workerUp, crashes, pathVars, idVars>>

\* An upload that persists only where nothing is and answers 500 otherwise.
upload_file_persist_exclusive(r) ==
    LET k == Resolve(build_full_upload_path(req[r].path))
    IN  /\ workerUp
        /\ req[r].op = "upload" /\ req[r].pc = "persist"
        /\ req' = [req EXCEPT ![r] = Idle]
        /\ IF copy_to_ok(fs, k) /\ Node(k) = "absent"
           THEN /\ fs' = copy_to(fs, k, req[r].content)
                /\ last' = Replacing(Response("upload", k, 201, req[r].content,
                                              req[r].expire),
                                     Node(k))
           ELSE /\ fs' = fs
                /\ last' = Response("upload", k, 500, req[r].content, req[r].expire)
        /\ UNCHANGED <<wf, workerUp, crashes, pathVars, idVars>>

\* uploads.rs:71-88: persist the file and answer 201 with its location; no
\* workflow is started for ?expire=.
upload_file_persist(r) ==
    LET k == Resolve(build_full_upload_path(req[r].path))
    IN  /\ workerUp
        /\ req[r].op = "upload" /\ req[r].pc = "persist"
        /\ req' = [req EXCEPT ![r] = Idle]
        /\ IF copy_to_ok(fs, k)
           THEN /\ fs' = copy_to(fs, k, req[r].content)
                /\ last' = Replacing(Response("upload", k, 201, req[r].content,
                                              req[r].expire),
                                     Node(k))
           ELSE /\ fs' = fs
                /\ last' = Response("upload", k, 500, req[r].content, req[r].expire)
        /\ UNCHANGED <<wf, workerUp, crashes, pathVars, idVars>>

\* ------------------------------------------------- the expiration workflow
Min(a, b) == IF a < b THEN a ELSE b

\* A Temporal client starts file_expiration_workflow, which the worker
\* registers (main.rs:111-114), with a FileExpirationInput.
start_workflow(t, path, ttl) ==
    /\ wf[t].state = "none"
    /\ wf' = [wf EXCEPT ![t] =
            [NoTask EXCEPT !.state = "Scheduled", !.path = path, !.ttl = ttl]]
    /\ last' = NoEvent
    /\ UNCHANGED <<fs, req, workerUp, crashes, pathVars, idVars>>

\* workflow.rs:35-48: the worker runs the workflow function up to the timer,
\* which the engine arms for ttl from now and keeps in its own store.
workflow_arm_timer(t) ==
    /\ workerUp
    /\ wf[t].state = "Scheduled"
    /\ wf' = [wf EXCEPT ![t].state = "Waiting", ![t].remaining = wf[t].ttl,
                        ![t].waited = 0]
    /\ last' = NoEvent
    /\ UNCHANGED <<fs, req, workerUp, crashes, pathVars, idVars>>

\* One unit of time passes for every armed timer, whether or not the worker
\* is running.
Tick ==
    /\ \E t \in TaskIds : wf[t].state = "Waiting" /\ wf[t].remaining > 0
    /\ wf' = [t \in TaskIds |->
            IF wf[t].state = "Waiting" /\ wf[t].remaining > 0
            THEN [wf[t] EXCEPT !.remaining = @ - 1, !.waited = @ + 1]
            ELSE wf[t]]
    /\ last' = NoEvent
    /\ UNCHANGED <<fs, req, workerUp, crashes, pathVars, idVars>>

\* A workflow that schedules the activity without waiting for its timer.
workflow_timer_fired_early(t) ==
    /\ workerUp
    /\ wf[t].state = "Waiting"
    /\ wf' = [wf EXCEPT ![t].state = "Dispatching"]
    /\ last' = NoEvent
    /\ UNCHANGED <<fs, req, workerUp, crashes, pathVars, idVars>>

\* workflow.rs:48-61: the timer has fired; the workflow schedules
\* delete_file_activity.
workflow_timer_fired(t) ==
    /\ workerUp
    /\ wf[t].state = "Waiting" /\ wf[t].remaining = 0
    /\ wf' = [wf EXCEPT ![t].state = "Dispatching"]
    /\ last' = NoEvent
    /\ UNCHANGED <<fs, req, workerUp, crashes, pathVars, idVars>>

\* An activity that, like DELETE /files, fails when nothing is at the path.
delete_file_activity_not_idempotent(t) ==
    /\ workerUp
    /\ wf[t].state = "Dispatching"
    /\ wf' = [wf EXCEPT ![t].state = "Removing"]
    /\ last' = NoEvent
    /\ UNCHANGED <<fs, req, workerUp, crashes, pathVars, idVars>>

\* An activity that reports success without removing anything.
delete_file_activity_skips_removal(t) ==
    LET k == Resolve(wf[t].path)
    IN  /\ workerUp
        /\ wf[t].state = "Dispatching"
        /\ wf' = [wf EXCEPT ![t].state = "Executed", ![t].result = "ok",
                            ![t].attempt = Min(@ + 1, MaxAttemptsCounted)]
        /\ last' = Response("activity", k, 1, "", NoExpire)
        /\ UNCHANGED <<fs, req, workerUp, crashes, pathVars, idVars>>

\* An activity bound to the file its task was made for: once it has removed
\* a file it leaves whatever stands at the path later alone.
delete_file_activity_first_file_only(t) ==
    LET k == Resolve(wf[t].path)
    IN  /\ workerUp
        /\ wf[t].state = "Dispatching"
        /\ IF exists(wf[t].path) /\ wf[t].removed = 0
           THEN /\ wf' = [wf EXCEPT ![t].state = "Removing"]
                /\ last' = NoEvent
           ELSE /\ wf' = [wf EXCEPT ![t].state = "Executed", ![t].result = "ok",
                                    ![t].attempt = Min(@ + 1, MaxAttemptsCounted)]
                /\ last' = Response("activity", k, 1, "", NoExpire)
        /\ UNCHANGED <<fs, req, workerUp, crashes, pathVars, idVars>>

\* workflow.rs:15-21, 27-31: the worker starts an execution of the activity,
\* which tests whether anything is at the path; with nothing there it
\* returns Ok, a result not yet known to the engine.
delete_file_activity(t) ==
    LET k == Resolve(wf[t].path)
    IN  /\ workerUp
        /\ wf[t].state = "Dispatching"
        /\ IF exists(wf[t].path)
           THEN /\ wf' = [wf EXCEPT ![t].state = "Removing"]
                /\ last' = NoEvent
           ELSE /\ wf' = [wf EXCEPT ![t].state = "Executed", ![t].result = "ok",
                                    ![t].attempt = Min(@ + 1, MaxAttemptsCounted)]
                /\ last' = Response("activity", k, 1, "", NoExpire)
        /\ UNCHANGED <<fs, req, workerUp, crashes, pathVars, idVars>>

\* workflow.rs:22-26, 31: the removal, a system call of its own after the
\* existence test; its error is the activity's error.
delete_file_activity_remove(t) ==
    LET k == Resolve(wf[t].path)
    IN  /\ workerUp
        /\ wf[t].state = "Removing"
        /\ IF remove_file_ok(k)
           THEN /\ fs' = remove_file(fs, k)
                /\ wf' = [wf EXCEPT ![t].state = "Executed", ![t].result = "ok",
                                    ![t].removed = @ + 1,
                                    ![t].attempt = Min(@ + 1, MaxAttemptsCounted)]
                /\ last' = Response("activity", k, 1, "", NoExpire)
           ELSE /\ fs' = fs
                /\ wf' = [wf EXCEPT ![t].state = "Executed", ![t].result = "err",
                                    ![t].attempt = Min(@ + 1, MaxAttemptsCounted)]
                /\ last' = Response("activity", k, -1, "", NoExpire)
        /\ UNCHANGED <<req, workerUp, crashes, pathVars, idVars>>

\* workflow.rs:61-71: the engine learns the result. Success resumes the
\* workflow, which returns Ok; a failure is retried by the engine, the
\* ActivityOptions of workflow.rs:54-59 naming neither a retry policy nor a
\* schedule-to-close timeout.
activity_result(t) ==
    /\ workerUp
    /\ wf[t].state = "Executed"
    /\ wf' = [wf EXCEPT ![t].state =
            IF wf[t].result = "ok" THEN "Completed" ELSE "Retrying"]
    /\ last' = NoEvent
    /\ UNCHANGED <<fs, req, workerUp, crashes, pathVars, idVars>>

\* The engine hands the activity out again, after a failure or after the
\* start-to-close timeout of workflow.rs:57 ran out on a lost result.
activity_retry(t) ==
    /\ wf[t].state = "Retrying"
    /\ wf' = [wf EXCEPT ![t].state = "Dispatching", ![t].result = "none"]
    /\ last' = NoEvent
    /\ UNCHANGED <<fs, req, workerUp, crashes, pathVars, idVars>>

\* ----------------------------------------------------------- the process
\* The process dies: requests in flight are never answered and an activity
\* that was running, or ran but was not reported, is lost. What the engine
\* stores (executions, timers) is untouched.
Crash ==
    /\ workerUp
    /\ crashes < MaxCrashes
    /\ workerUp' = FALSE
    /\ crashes' = crashes + 1
    /\ req' = [r \in Slots |-> Idle]
    /\ wf' = [t \in TaskIds |->
            IF wf[t].state \in {"Removing", "Executed"}
            THEN [wf[t] EXCEPT !.state = "Retrying", !.result = "none"]
            ELSE wf[t]]
    /\ last' = Response("crash", <<>>, 0, "", NoExpire)
    /\ UNCHANGED <<fs, pathVars, idVars>>

\* A restart that runs the workflow function afresh, arming a new timer for
\* the full ttl.
replay_rearms(task) ==
    IF task.state = "Waiting" THEN [task EXCEPT !.remaining = task.ttl] ELSE task

\* What a restart does to an execution: the worker replays it from the
\* engine's history, the timer of workflow.rs:48 staying as armed.
replay(task) == task

\* main.rs:99-120: the process is started again and its worker polls.
Restart ==
    /\ ~workerUp
    /\ workerUp' = TRUE
    /\ wf' = [t \in TaskIds |-> replay(wf[t])]
    /\ last' = Response("restart", <<>>, 0, "", NoExpire)
    /\ UNCHANGED <<fs, req, crashes, pathVars, idVars>>

\* ------------------------------------------------------ specifications
\* The file store and the uploads: two handler tasks side by side.
Next ==
    \/ \E r \in Slots, path \in ReqPaths, content \in Contents :
         \/ create_file_check(r, path, content)
         \/ upsert_file_check(r, path, content)
    \/ \E r \in Slots, path \in ReqPaths : delete_file_check(r, path)
    \/ \E r \in Slots, e \in Extensions, content \in Contents :
         upload_file_start(r, e, content, NoExpire)
    \/ \E r \in Slots :
         \/ create_file_write(r)
         \/ upsert_file_write(r)
         \/ delete_file_is_file(r)
         \/ delete_file_remove(r)
         \/ upload_file_loop(r)
         \/ upload_file_persist(r)

Spec == Init /\ [][Next]_vars

\* The expiration workflow beside one handler task: the engine, the worker,
\* the clock, crashes, and the requests that touch the paths of TaskPaths.
WfStep ==
    \/ \E t \in TaskIds, path \in TaskPaths, ttl \in Ttls : start_workflow(t, path, ttl)
    \/ \E t \in TaskIds :
         \/ workflow_arm_timer(t)
         \/ workflow_timer_fired(t)
         \/ delete_file_activity(t)
         \/ delete_file_activity_remove(t)
         \/ activity_result(t)
         \/ activity_retry(t)
    \/ Tick
    \/ Crash
    \/ Restart

WfRequests ==
    \/ \E path \in ReqPaths, content \in Contents :
         \/ create_file_check(1, path, content)
         \/ upsert_file_check(1, path, content)
    \/ \E path \in ReqPaths : delete_file_check(1, path)
    \/ \E content \in Contents, expire \in Expires :
         upload_file_start(1, None, content, expire)
    \/ create_file_write(1)
    \/ upsert_file_write(1)
    \/ delete_file_is_file(1)
    \/ delete_file_remove(1)
    \/ upload_file_loop(1)
    \/ upload_file_persist(1)

WfNext == WfStep \/ WfRequests

WfSpec == Init /\ [][WfNext]_vars

\* The worker polls for as long as the process runs (worker.run(),
\* main.rs:118), the engine's clock and retries do not stop, and a process
\* that died is started again.
WfFairness ==
    /\ \A t \in TaskIds :
         /\ WF_vars(workflow_arm_timer(t))
         /\ WF_vars(workflow_timer_fired(t))
         /\ WF_vars(delete_file_activity(t))
         /\ WF_vars(delete_file_activity_remove(t))
         /\ WF_vars(activity_result(t))
         /\ WF_vars(activity_retry(t))
    /\ WF_vars(Tick)
    /\ WF_vars(Restart)

FairWfSpec == WfSpec /\ WfFairness

\* Creates only, in two handler tasks side by side.
CreateRaceNext ==
    \/ \E r \in Slots, path \in ReqPaths, content \in Contents :
         create_file_check(r, path, content)
    \/ \E r \in Slots : create_file_write(r)

CreateRaceSpec == Init /\ [][CreateRaceNext]_vars

\* Deletes in two handler tasks side by side with the expiration workflow,
\* and the creates that put files in their way.
DeleteRaceNext ==
    \/ \E r \in Slots, path \in ReqPaths, content \in Contents :
         create_file_check(r, path, content)
    \/ \E r \in Slots, path \in ReqPaths : delete_file_check(r, path)
    \/ \E r \in Slots :
         \/ create_file_write(r)
         \/ delete_file_is_file(r)
         \/ delete_file_remove(r)
    \/ \E t \in TaskIds, path \in TaskPaths, ttl \in Ttls : start_workflow(t, path, ttl)
    \/ \E t \in TaskIds :
         \/ workflow_arm_timer(t)
         \/ workflow_timer_fired(t)
         \/ delete_file_activity(t)
         \/ delete_file_activity_remove(t)
         \/ activity_result(t)
         \/ activity_retry(t)
    \/ Tick

DeleteRaceSpec == Init /\ [][DeleteRaceNext]_vars

\* Uploads only, in two handler tasks side by side.
UploadRaceNext ==
    \/ \E r \in Slots, e \in Extensions, content \in Contents :
         upload_file_start(r, e, content, NoExpire)
    \/ \E r \in Slots :
         \/ upload_file_loop(r)
         \/ upload_file_persist(r)

UploadRaceSpec == Init /\ [][UploadRaceNext]_vars

\* One request at a time: a single handler task serves the file store and
\* the uploads, so that no two requests overlap.
SeqNext ==
    \/ \E path \in ReqPaths, content \in Contents :
         \/ create_file_check(1, path, content)
         \/ upsert_file_check(1, path, content)
    \/ \E path \in ReqPaths : delete_file_check(1, path)
    \/ \E e \in Extensions, content \in Contents :
         upload_file_start(1, e, content, NoExpire)
    \/ create_file_write(1)
    \/ upsert_file_write(1)
    \/ delete_file_is_file(1)
    \/ delete_file_remove(1)
    \/ upload_file_loop(1)
    \/ upload_file_persist(1)

SeqSpec == Init /\ [][SeqNext]_vars

\* A handler task that was started runs on: the runtime keeps polling it.
SeqFairness ==
    /\ WF_vars(upload_file_loop(1))
    /\ WF_vars(upload_file_persist(1))

FairSeqSpec == SeqSpec /\ SeqFairness

\* The /files routes with their path guard, one request at a time, on
\* request paths with "..", dotted and hidden segments. The filesystem here
\* also holds the places such a path would name if nothing guarded it.
SegsNested == <<NameA, NameB, DotDot, NameC, NameTest>>
SegsEscape == <<DotDot, NameEscape>>
ReqSegments == {SegsNested, SegsEscape, <<NameDotted>>, <<NameHidden>>, <<NameA>>}
AsComponents(segments) ==
    [i \in DOMAIN segments |->
        IF segments[i] = DotDot THEN ParentDir ELSE Normal(segments[i])]
RouteKeys ==
    UNION {Prefixes(Resolve(join(base, AsComponents(segs))))
               \cup Prefixes(Resolve(build_full_upload_path(AsComponents(segs))))
           : segs \in ReqSegments}
        \ (Prefixes(StorageRoot) \ {StorageRoot})

RouteInit ==
    /\ relative_path = <<>>
    /\ resolved = NotResolved
    /\ size = 0
    /\ id = NoId
    /\ fs = [k \in RouteKeys |-> IF k = StorageRoot THEN "dir" ELSE "absent"]
    /\ req = [r \in Slots |-> Idle]
    /\ last = NoEvent
    /\ wf = [t \in TaskIds |-> NoTask]
    /\ workerUp = TRUE
    /\ crashes = 0

RouteNext ==
    \/ \E segments \in ReqSegments, content \in Contents :
         \/ request_create(1, segments, content)
         \/ request_upsert(1, segments, content)
    \/ \E segments \in ReqSegments : request_delete(1, segments)
    \/ create_file_write(1)
    \/ upsert_file_write(1)
    \/ delete_file_is_file(1)
    \/ delete_file_remove(1)

RouteSpec == RouteInit /\ [][RouteNext]_vars

\* The id generator alone: one call for each length up to MaxIdLen, with
\* every outcome of its random draws.
IdInit ==
    /\ relative_path = <<>>
    /\ resolved = NotResolved
    /\ size \in 0..MaxIdLen
    /\ id = NoId
    /\ ServerInit

new_id ==
    /\ id = NoId
    /\ \E draws \in [1..size -> 0..(Len(BASE62) - 1)] :
         id' = UploadId_new(size, draws)
    /\ UNCHANGED <<size, pathVars, serverVars>>

IdNext == new_id

IdSpec == IdInit /\ [][IdNext]_vars

\* The resolver alone, on every component sequence up to MaxLen.
Components ==
    {Normal(NameEtc), Normal(NameUploads), CurDir, ParentDir, RootDir, Prefix}
Inputs == UNION {[1..n -> Components] : n \in 0..MaxLen}

PathInit ==
    /\ relative_path \in Inputs
    /\ resolved = NotResolved
    /\ size = 0
    /\ id = NoId
    /\ ServerInit

resolve ==
    /\ resolved = NotResolved
    /\ resolved' = build_full_upload_path(relative_path)
    /\ UNCHANGED <<relative_path, serverVars, idVars>>

PathNext == resolve

PathSpec == PathInit /\ [][PathNext]_vars

\* ------------------------------------------------------------ the claims
HasKind(p, kinds) == \E i \in 1..Len(p) : p[i].kind \in kinds
Markers == {"CurDir", "ParentDir", "RootDir", "Prefix"}

\* C1: for every untrusted relative path (any sequence of named, '.', '..',
\* root and prefix components) build_full_upload_path returns a path that is
\* the storage root or lies under it.
C1_NeverOutsideRoot ==
    resolved # NotResolved => UnderRoot(resolved)

\* C1's case: an input that climbs above the root by '..' has been resolved.
C1_Witness ==
    /\ resolved # NotResolved
    /\ relative_path = <<ParentDir, ParentDir, Normal(NameEtc)>>

\* C2 as stated: for every input containing '..', '.' or a root marker the
\* output is a strict descendant of the storage root, never the root itself.
C2_Original ==
    (resolved # NotResolved /\ HasKind(relative_path, Markers))
        => StrictlyUnderRoot(resolved)

\* C2 as amended: the output is the storage root or a descendant of it, and
\* it is a strict descendant exactly when the input names at least one
\* normal component; an input made only of markers resolves to the root.
C2_StrictIffNamed ==
    (resolved # NotResolved /\ HasKind(relative_path, Markers))
        => /\ UnderRoot(resolved)
           /\ StrictlyUnderRoot(resolved) <=> HasKind(relative_path, {"Normal"})

\* C2's case: an input made only of markers has been resolved to the root.
C2_Witness ==
    /\ resolved # NotResolved
    /\ relative_path = <<ParentDir, CurDir>>
    /\ Resolve(resolved) = StorageRoot

\* The place a request path or a workflow input points at.
Key(path) == Resolve(build_full_upload_path(path))
TaskKey(t) == Resolve(wf[t].path)
Started(t) == wf[t].state # "none"
\* The task has dispatched its deletion activity at least once.
Dispatched == {"Dispatching", "Removing", "Executed", "Retrying", "Completed"}
\* Terminal: the activity succeeded and the workflow returned, or the task
\* was abandoned (a state no step of the code or of its ActivityOptions
\* leads to).
Terminal == {"Completed", "Abandoned"}

\* C3 as stated: once an upload with a TTL has answered success, an
\* expiration task for the uploaded file's path is registered with the
\* scheduler (so that the file goes away after the TTL).
C3_UploadRegistersExpiration ==
    (last.op = "upload" /\ last.status = 201 /\ last.expire.some)
        => \E t \in TaskIds :
             /\ Started(t)
             /\ TaskKey(t) = last.key
             /\ wf[t].ttl = last.expire.val

\* C4 as stated, in the part a finite run refutes: the deletion of one
\* expiration task takes effect at most once, however often the activity is
\* delivered.
C4_Original ==
    \A t \in TaskIds : wf[t].removed <= 1

\* C4 as amended: under fair scheduling of the worker a regular file that
\* stands at the target path when the task is scheduled is eventually gone
\* from it, and every delivery of the activity that takes effect removes
\* exactly the one file standing at the path at that moment, so that a
\* redelivery removes something only when a file was put there in between.
C4_EventuallyDeletedOncePerDelivery ==
    /\ \A t \in TaskIds :
         (wf[t].state = "Scheduled" /\ Node(TaskKey(t)) \in Contents)
             ~> (Node(TaskKey(t)) \notin Contents)
    /\ [][\A t \in TaskIds :
            wf'[t].removed # wf[t].removed
                => /\ wf'[t].removed = wf[t].removed + 1
                   /\ Node(TaskKey(t)) \in Contents
                   /\ fs' = [fs EXCEPT ![TaskKey(t)] = "absent"]]_vars

\* C4's case: after a crash the activity was delivered again and found the
\* file of the first delivery gone.
C4_Witness ==
    \E t \in TaskIds :
        /\ wf[t].state = "Completed"
        /\ wf[t].attempt >= 2
        /\ wf[t].removed = 1
        /\ crashes >= 1

C6_AlwaysTerminal ==
    \A t \in TaskIds : (wf[t].state = "Scheduled") ~> (wf[t].state \in Terminal)

\* C7 as stated: the deletion activity never fails.
C7_Original ==
    last.op = "activity" => last.status = 1

\* C7 as amended: an execution of the activity succeeds and changes nothing
\* when its test finds nothing at the path (so a second call right after a
\* successful one succeeds); otherwise it goes on to the removal, which
\* removes the file and succeeds when a regular file is at the path and
\* fails, changing nothing, when none is (the path is a directory).
C7_IdempotentOnFiles ==
    [][\A t \in TaskIds :
         LET k == TaskKey(t)
         IN  /\ (wf[t].state = "Dispatching" /\ wf'[t].state \in {"Removing", "Executed"})
                  => /\ fs' = fs
                     /\ Node(k) = "absent"
                          => wf'[t].state = "Executed" /\ wf'[t].result = "ok"
                     /\ Node(k) # "absent" => wf'[t].state = "Removing"
             /\ (wf[t].state = "Removing" /\ wf'[t].state = "Executed")
                  => /\ Node(k) \in Contents
                          => /\ wf'[t].result = "ok"
                             /\ fs' = [fs EXCEPT ![k] = "absent"]
                     /\ Node(k) \notin Contents
                          => wf'[t].result = "err" /\ fs' = fs
                     /\ wf'[t].result = "ok" => fs'[k] = "absent"]_vars

\* C7's case: the activity ran a second time for the path, found nothing
\* and succeeded.
C7_Witness ==
    \E t \in TaskIds :
        /\ last.op = "activity" /\ last.status = 1
        /\ wf[t].state = "Executed"
        /\ wf[t].attempt >= 2
        /\ wf[t].removed = 1
        /\ Node(TaskKey(t)) = "absent"

\* C8 as stated: an upload with a TTL never answers success while its TTL
\* is dropped: the step that answers 201 to an upload with ?expire= leaves
\* an expiration task registered that was not there before.
C8_NoSilentTtlDrop ==
    [][(last'.op = "upload" /\ last'.status = 201 /\ last'.expire.some)
          => wf' # wf]_vars

\* The step takes up a create of place k that passed the existence check.
CreateTaken(k) ==
    \E r \in Slots :
        /\ req[r] = Idle
        /\ req'[r].op = "create"
        /\ Key(req'[r].path) = k
\* The step answers a create of place k at its existence check.
CreateRefused(k) ==
    /\ req' = req
    /\ last'.op = "create"
    /\ last'.key = k
\* The step is the answer of handler task r to a create that passed the
\* check.
CreateAnswered(r) ==
    /\ req[r].op = "create" /\ req[r].pc = "write"
    /\ req'[r] = Idle
    /\ last'.op = "create"
\* An ancestor of place k is a regular file.
Blocked(k) == \E a \in Prefixes(parent(k)) : Node(a) \in Contents

\* C9 as stated: a create that directly follows a completed create of the
\* same path is answered 409 and leaves the file as it is.
C9_Original ==
    [][LET k == last.key
       IN  (last.op = "create" /\ (CreateTaken(k) \/ CreateRefused(k)))
               => /\ CreateRefused(k)
                  /\ last'.status = 409
                  /\ fs' = fs]_vars

\* C9 as amended: when the first create did not fail with 500, a create of
\* the same path that directly follows it is answered 409 and changes
\* nothing, and the file holds the content the first call wrote when that
\* call answered 201.
C9_SecondCreateConflicts ==
    [][LET k == last.key
       IN  (/\ last.op = "create"
            /\ last.status \in {201, 409}
            /\ (CreateTaken(k) \/ CreateRefused(k)))
               => /\ CreateRefused(k)
                  /\ last'.status = 409
                  /\ fs' = fs
                  /\ last.status = 201 => fs'[k] = last.content]_vars

\* C9's case: a create has just been answered 409 and the file at its path
\* holds other content than the refused request carried.
C9_Witness ==
    /\ last.op = "create" /\ last.status = 409
    /\ last.key \in DOMAIN fs
    /\ fs[last.key] \in Contents
    /\ fs[last.key] # last.content

\* C10 as stated: a create that finds nothing at its path makes the missing
\* parent directories, writes the content and answers 201.
C10_Original ==
    [][\A r \in Slots :
         LET k == Key(req[r].path)
         IN  (CreateAnswered(r) /\ Node(k) = "absent")
                 => /\ last'.status = 201
                    /\ fs'[k] = req[r].content
                    /\ \A a \in Prefixes(parent(k)) \cap DOMAIN fs : fs'[a] = "dir"]_vars

\* C10 as amended: a create that finds nothing at its path, no ancestor of
\* which is a regular file, makes the missing parent directories, writes
\* the content, touches nothing else and answers 201; with a regular file
\* among the ancestors it answers 500 and changes nothing; and whenever a
\* create answers 201 the path holds exactly the supplied content.
C10_CreateWritesUnlessBlocked ==
    [][\A r \in Slots :
         LET k == Key(req[r].path)
         IN  CreateAnswered(r)
                 => /\ (Node(k) = "absent" /\ ~Blocked(k))
                        => /\ last'.status = 201
                           /\ fs'[k] = req[r].content
                           /\ \A a \in Prefixes(parent(k)) \cap DOMAIN fs : fs'[a] = "dir"
                           /\ \A x \in DOMAIN fs \ Prefixes(k) : fs'[x] = fs[x]
                    /\ Blocked(k) => (last'.status = 500 /\ fs' = fs)
                    /\ last'.status = 201 => fs'[k] = req[r].content]_vars

\* C10's case: a create of a nested path has just answered 201, its parent
\* directory made and its content in place.
C10_Witness ==
    /\ last.op = "create" /\ last.status = 201
    /\ Len(last.key) = Len(StorageRoot) + 2
    /\ fs[parent(last.key)] = "dir"
    /\ fs[last.key] = last.content

\* The step takes up an upsert in handler task r.
UpsertTaken(r) ==
    /\ req[r] = Idle
    /\ req'[r].op = "upsert"
\* The step is the answer of handler task r to an upsert.
UpsertAnswered(r) ==
    /\ req[r].op = "upsert" /\ req[r].pc = "write"
    /\ req'[r] = Idle
    /\ last'.op = "upsert"

\* C11 as stated, for an upsert during which no other request made or
\* removed the path: it answers 201 when nothing is at the path and 200 when
\* something is, and in both cases the path then holds the input.
C11_Original ==
    [][\A r \in Slots :
         LET k == Key(req[r].path)
         IN  (UpsertAnswered(r) /\ req[r].file_exists = (Node(k) # "absent"))
                 => /\ last'.status = (IF Node(k) = "absent" THEN 201 ELSE 200)
                    /\ fs'[k] = req[r].content]_vars

\* C11 as amended: the handler notes whether the path exists when it takes
\* the request up. An upsert of a path that is no directory and has no
\* regular file among its ancestors writes the input over whatever is there,
\* touches nothing else but missing parent directories, and answers 200
\* when the path existed at the check and 201 when it did not; so 201 with
\* nothing at the path and 200 with a file at it when no other request wrote
\* or removed it in between. On a directory, or below a regular file, it
\* answers 500 and the path keeps what it had.
C11_UpsertCreatesOrReplaces ==
    [][\A r \in Slots :
         LET k == Key(req[r].path)
         IN  /\ UpsertTaken(r)
                 => req'[r].file_exists = (Node(Key(req'[r].path)) # "absent")
             /\ UpsertAnswered(r)
                 => /\ (Node(k) # "dir" /\ ~Blocked(k))
                        => /\ last'.status = (IF req[r].file_exists THEN 200 ELSE 201)
                           /\ fs'[k] = req[r].content
                           /\ last'.over = Node(k)
                           /\ \A a \in Prefixes(parent(k)) \cap DOMAIN fs : fs'[a] = "dir"
                           /\ \A x \in DOMAIN fs \ Prefixes(k) : fs'[x] = fs[x]
                    /\ (Node(k) = "dir" \/ Blocked(k))
                        => /\ last'.status = 500
                           /\ fs'[k] = fs[k]
                    /\ last'.status \in {200, 201} => fs'[k] = req[r].content]_vars

\* C11's case: an upsert has just answered 200 and the file that held other
\* content now holds the input.
C11_Witness ==
    /\ last.op = "upsert" /\ last.status = 200
    /\ last.over \in Contents
    /\ last.over # last.content
    /\ fs[last.key] = last.content

\* The step takes up a delete of place k, which passed the existence check.
DeleteTaken(k) ==
    \E r \in Slots :
        /\ req[r] = Idle
        /\ req'[r].op = "delete"
        /\ Key(req'[r].path) = k
\* The step answers a delete of place k at its existence check.
DeleteRefused(k) ==
    /\ req' = req
    /\ last'.op = "delete"
    /\ last'.key = k
\* The step is the second check of handler task r on a delete.
DeleteLookedAgain(r) ==
    /\ req[r].op = "delete" /\ req[r].pc = "is_file"
    /\ req'[r] # req[r]
    /\ last'.op # "crash"
\* The step is the answer of handler task r to a delete that passed the
\* checks.
DeleteAnswered(r) ==
    /\ req[r].op = "delete" /\ req[r].pc = "remove"
    /\ req'[r] = Idle
    /\ last'.op = "delete"

\* C12: a delete is answered 404, nothing changed, exactly when its
\* existence check finds nothing at the path; one that finds a directory
\* there is answered 400, nothing changed; one that finds a regular file at
\* both checks goes on to remove it, and removing the file that is still
\* there empties the path, touches nothing else and answers 200. A delete
\* that directly follows a delete of the same path answered 200 is answered
\* 404.
C12_DeleteNotIdempotent ==
    [][/\ LET k == last'.key
          IN  DeleteRefused(k)
                  => /\ fs' = fs
                     /\ last'.status = 404
                     /\ Node(k) = "absent"
       /\ \A r \in Slots :
            (req[r] = Idle /\ req'[r].op = "delete")
                => (Node(Key(req'[r].path)) # "absent" /\ fs' = fs)
       /\ \A r \in Slots :
            DeleteLookedAgain(r)
                => LET k == Key(req[r].path)
                   IN  /\ fs' = fs
                       /\ Node(k) = "dir"
                            => /\ req'[r] = Idle
                               /\ last' = Response("delete", k, 400, "", NoExpire)
                       /\ Node(k) \in Contents
                            => req'[r] = [req[r] EXCEPT !.pc = "remove"]
                       /\ req'[r] = Idle
                            => /\ last'.status = 400
                               /\ Node(k) \notin Contents
       /\ \A r \in Slots :
            DeleteAnswered(r)
                => LET k == Key(req[r].path)
                   IN  Node(k) \in Contents
                           => /\ last'.status = 200
                              /\ fs' = [fs EXCEPT ![k] = "absent"]
       /\ LET k == last.key
          IN  (/\ last.op = "delete" /\ last.status = 200
               /\ (DeleteTaken(k) \/ DeleteRefused(k)))
                  => (DeleteRefused(k) /\ last'.status = 404)]_vars

\* C12's case: a delete has just been answered 404 for a nested path whose
\* parent directory is there: the file once created there has been deleted.
C12_Witness ==
    /\ last.op = "delete" /\ last.status = 404
    /\ Len(last.key) = Len(StorageRoot) + 2
    /\ fs[parent(last.key)] = "dir"
    /\ fs[last.key] = "absent"

\* The step is the answer of handler task r to an upload.
UploadAnswered(r) ==
    /\ req[r].op = "upload" /\ req[r].pc = "persist"
    /\ req'[r] = Idle
    /\ last'.op = "upload"
\* name is an id of UploadIdSize symbols, alone or followed by "." and the
\* extension.
IsFileNameOfId(name, extension) ==
    IF extension.some
    THEN /\ Len(name) = UploadIdSize + 1 + Len(extension.val)
         /\ SubSeq(name, UploadIdSize + 1, Len(name)) = <<".">> \o extension.val
    ELSE Len(name) = UploadIdSize

\* C13: with one request served at a time, the loop of an upload leaves
\* with a path at which nothing exists; an upload that answers 201 has
\* stored its content at a place directly under the storage root named by
\* an 8-symbol id, alone or with "." and the extension, where nothing stood
\* before, and has changed nothing else. Its location is therefore none at
\* which a file stands, so none an earlier upload returned and no delete
\* emptied since.
C13_UploadStoresAtFreshLocation ==
    [][\A r \in Slots :
         /\ (req[r].pc = "loop" /\ req'[r].pc = "persist")
                => Node(Key(req'[r].path)) = "absent"
         /\ (UploadAnswered(r) /\ last'.status = 201)
                => LET k == last'.key
                   IN  /\ k = Key(req[r].path)
                       /\ parent(k) = StorageRoot
                       /\ IsFileNameOfId(k[Len(k)], req[r].extension)
                       /\ Node(k) = "absent"
                       /\ last'.over = "absent"
                       /\ fs' = [fs EXCEPT ![k] = req[r].content]]_vars

\* C13's case: an upload with an extension has just answered 201 while the
\* file of an earlier upload with the same extension stands at the other
\* id's location.
C13_Witness ==
    LET ka == Key(<<Normal(file_name(IdA, Some(Txt)))>>)
        kb == Key(<<Normal(file_name(IdB, Some(Txt)))>>)
    IN  /\ last.op = "upload" /\ last.status = 201
        /\ last.key \in {ka, kb}
        /\ fs[ka] \in Contents
        /\ fs[kb] \in Contents

\* C20 as stated: under fair scheduling of the handler task, an upload that
\* is in its id-selection loop always eventually leaves the loop.
C20_LoopTerminates ==
    (req[1].op = "upload" /\ req[1].pc = "loop") ~> (req[1].pc # "loop")

\* The step takes a request of handler task 1 through the guard of its
\* route, with these decoded segments.
RequestStep(segments) ==
    \/ \E content \in Contents :
         \/ request_create(1, segments, content)
         \/ request_upsert(1, segments, content)
    \/ request_delete(1, segments)
HasDotDot(segments) == \E i \in 1..Len(segments) : segments[i] = DotDot

\* C14 as stated: a request to /files/<path> whose decoded segments contain
\* ".." is answered 400 at once: no handler takes it up and the filesystem
\* stays as it is.
C14_DotDotRejected ==
    [][\A segments \in ReqSegments :
         (HasDotDot(segments) /\ RequestStep(segments))
             => /\ last'.status = 400
                /\ req' = req
                /\ fs' = fs]_vars

\* Where a/b/../c/test.txt is to land: a/c/test.txt under the storage root.
PathNested == <<Normal(NameA), Normal(NameC), Normal(NameTest)>>
KeyNested == StorageRoot \o <<NameA, NameC, NameTest>>

\* C15: a create for a/b/../c/test.txt passes the guard as the path
\* a/c/test.txt: it is answered 409 when something is there and is taken up
\* for that path otherwise, the filesystem untouched so far. The write of
\* that create changes nothing but a/c/test.txt and its missing parent
\* directories, all under the storage root, and when it answers 201 the
\* content is at a/c/test.txt.
C15_NestedDotDotLandsInside ==
    [][/\ \A content \in Contents :
            request_create(1, SegsNested, content)
                => /\ fs' = fs
                   /\ \/ /\ req' = req
                         /\ last' = Response("create", KeyNested, 409, content, NoExpire)
                      \/ /\ req'[1].op = "create"
                         /\ req'[1].path = PathNested
                         /\ req'[1].content = content
       /\ (CreateAnswered(1) /\ req[1].path = PathNested)
            => /\ last'.key = KeyNested
               /\ \A x \in DOMAIN fs \ Prefixes(KeyNested) : fs'[x] = fs[x]
               /\ \A x \in DOMAIN fs :
                    fs'[x] # fs[x] => (IsPrefixOf(StorageRoot, x) /\ x # StorageRoot)
               /\ \A x \in Prefixes(parent(KeyNested)) \cap DOMAIN fs :
                    fs'[x] \in {fs[x], "dir"}
               /\ last'.status = 201 => fs'[KeyNested] = req[1].content]_vars

\* C15's case: the create of a/b/../c/test.txt has just answered 201; the
\* file is at a/c/test.txt and nothing was made at a/b.
C15_Witness ==
    /\ last.op = "create" /\ last.status = 201
    /\ last.key = KeyNested
    /\ fs[KeyNested] = last.content
    /\ fs[StorageRoot \o <<NameA, NameC>>] = "dir"
    /\ fs[StorageRoot \o <<NameA, NameB>>] = "absent"

\* The 62 symbols: digits, upper-case and lower-case letters.
Digits == {"0", "1", "2", "3", "4", "5", "6", "7", "8", "9"}
UpperCase ==
    {"A", "B", "C", "D", "E", "F", "G", "H", "I", "J", "K", "L", "M",
     "N", "O", "P", "Q", "R", "S", "T", "U", "V", "W", "X", "Y", "Z"}
LowerCase ==
    {"a", "b", "c", "d", "e", "f", "g", "h", "i", "j", "k", "l", "m",
     "n", "o", "p", "q", "r", "s", "t", "u", "v", "w", "x", "y", "z"}
Alphabet62 == Digits \cup UpperCase \cup LowerCase

\* C16: for every requested length n the generator returns an id of exactly
\* n symbols, each a digit, an upper-case or a lower-case letter, and the
\* alphabet it draws from holds exactly these 62 symbols.
C16_IdHasLengthAndAlphabet ==
    /\ Cardinality(Alphabet62) = 62
    /\ {BASE62[i] : i \in 1..Len(BASE62)} = Alphabet62
    /\ id # NoId
         => /\ Len(id) = size
            /\ \A i \in 1..Len(id) : id[i] \in Alphabet62

\* C16's case: an id of two symbols was asked for and "z0" was returned.
C16_Witness ==
    /\ size = 2
    /\ id = <<"z", "0">>

IsNormal(component) == component.kind = "Normal"

\* C17: the resolved path is the base followed by exactly the named
\* components of the input, in their order; ".", "..", root and prefix
\* components are dropped and take no named component with them.
C17_KeepsNamedInOrder ==
    resolved # NotResolved
        => resolved = base \o SelectSeq(relative_path, IsNormal)

\* C17's case: folder/../file has been resolved to folder/file under the
\* base.
C17_Witness ==
    /\ relative_path = <<Normal(NameEtc), ParentDir, Normal(NameUploads)>>
    /\ resolved = base \o <<Normal(NameEtc), Normal(NameUploads)>>

\* C18: nothing but the existence check at its start keeps a create from
\* writing: a create is taken up whenever nothing is at its path, whatever
\* other create is under way, and its write onto a path where a file has
\* appeared since answers 201 and puts its own content in place of that
\* file's; so two creates of one absent path can both be answered 201, the
\* content of the one that wrote first lost.
C18_ConcurrentCreatesClobber ==
    [][\A r \in Slots :
         /\ (req[r] = Idle /\ req'[r].op = "create")
                => Node(Key(req'[r].path)) = "absent"
         /\ CreateAnswered(r)
                => LET k == Key(req[r].path)
                   IN  Node(k) \in Contents
                           => /\ last'.status = 201
                              /\ last'.over = fs[k]
                              /\ fs' = [fs EXCEPT ![k] = req[r].content]]_vars

\* C18's case, creates being the only requests: a create has just answered
\* 201 and its content stands where the content another create wrote, and
\* was answered 201 for, stood before.
C18_Witness ==
    /\ last.op = "create" /\ last.status = 201
    /\ last.over \in Contents
    /\ last.over # last.content
    /\ fs[last.key] = last.content

\* C19: nothing but the existence check in its loop keeps an upload from
\* writing: the loop leaves with any candidate at whose path nothing is,
\* whatever other upload is under way, and persisting onto a path where a
\* file has appeared since answers 201 with that same location and puts its
\* own content in place of that file's.
C19_ConcurrentUploadsCollide ==
    [][\A r \in Slots :
         /\ (req[r].pc = "loop" /\ req'[r].pc = "persist")
                => Node(Key(req'[r].path)) = "absent"
         /\ UploadAnswered(r)
                => LET k == Key(req[r].path)
                   IN  Node(k) \in Contents
                           => /\ last'.status = 201
                              /\ last'.key = k
                              /\ last'.over = fs[k]
                              /\ fs' = [fs EXCEPT ![k] = req[r].content]]_vars

\* C19's case, uploads being the only requests: an upload has just answered
\* 201 with a location at which the content of another upload, answered 201
\* with the same location, stood before; its own content has replaced it.
C19_Witness ==
    /\ last.op = "upload" /\ last.status = 201
    /\ last.over \in Contents
    /\ last.over # last.content
    /\ fs[last.key] = last.content

\* The states of a task whose timer has not fired yet.
BeforeTimer == {"Scheduled", "Waiting"}

\* C21: in every run of an expiration task the deletion activity is
\* dispatched only after the TTL timer has fired: a task becomes Dispatching
\* only from Waiting with no time left and the whole ttl waited (or from a
\* retry of an earlier dispatch); the activity runs only for a task that is
\* Dispatching; and while a task is Scheduled or Waiting it has run no
\* activity and removed nothing.
C21_DispatchOnlyAfterTimer ==
    [][\A t \in TaskIds :
         /\ (wf[t].state # "Dispatching" /\ wf'[t].state = "Dispatching")
              => \/ /\ wf[t].state = "Waiting"
                    /\ wf[t].remaining = 0
                    /\ wf[t].waited = wf[t].ttl
                 \/ wf[t].state = "Retrying"
         /\ (last'.op = "activity" /\ last'.key = TaskKey(t))
              => /\ wf[t].state \in {"Dispatching", "Removing"}
                 /\ wf[t].waited = wf[t].ttl
         /\ wf[t].state \in BeforeTimer
              => /\ wf[t].attempt = 0 /\ wf[t].removed = 0
                 /\ wf'[t].attempt = 0 /\ wf'[t].removed = 0
                 /\ last'.op # "activity"]_vars

\* C21's case: a task with a ttl above zero waited it out, and its activity
\* then removed the file.
C21_Witness ==
    \E t \in TaskIds :
        /\ last.op = "activity" /\ last.status = 1
        /\ wf[t].ttl >= 1
        /\ wf[t].waited = wf[t].ttl
        /\ wf[t].removed = 1

\* C22 as stated: when an execution of the deletion activity fails, the
\* attempts are bounded: under fair scheduling of the worker the task does
\* not retry forever but eventually becomes Terminal (completed by a later
\* attempt, or abandoned once the retries are exhausted).
C22_RetriesBounded ==
    \A t \in TaskIds :
        (wf[t].state = "Executed" /\ wf[t].result = "err")
            ~> (wf[t].state \in Terminal)

\* C23: an expiration task is tied to its path and to nothing else. No
\* request that changes the filesystem (a delete of the target, a create or
\* upsert of a new file at the same path, an upload) touches the task, and
\* an execution of the activity removes whatever regular file stands at the
\* path at that moment, also one put there after the task was scheduled or
\* after an earlier delivery of the activity removed the first one.
C23_TaskRemovesWhateverIsAtPath ==
    [][\A t \in TaskIds :
         /\ (fs' # fs /\ last'.op # "activity") => wf'[t] = wf[t]
         /\ (wf[t].state = "Dispatching" /\ wf'[t].state \in {"Removing", "Executed"}
                /\ Node(TaskKey(t)) \in Contents)
              => wf'[t].state = "Removing"
         /\ (wf[t].state = "Removing" /\ wf'[t].state = "Executed"
                /\ Node(TaskKey(t)) \in Contents)
              => /\ fs' = [fs EXCEPT ![TaskKey(t)] = "absent"]
                 /\ wf'[t].removed = wf[t].removed + 1
                 /\ wf'[t].result = "ok"]_vars

\* C23's case: the activity was delivered a second time and removed a file
\* that was created at the path after its first delivery had removed the
\* file standing there before.
C23_Witness ==
    \E t \in TaskIds :
        /\ last.op = "activity" /\ last.status = 1
        /\ last.key = TaskKey(t)
        /\ wf[t].removed = 2
        /\ Node(TaskKey(t)) = "absent"

\* C24 as stated: the workflow completes with a success result whatever the
\* outcome of the deletion activity: once the activity has run, with success
\* or with failure, the workflow eventually ends as Completed, under fair
\* scheduling of the worker.
C24_CompletesWhateverTheOutcome ==
    \A t \in TaskIds :
        (wf[t].state = "Executed" /\ wf[t].result \in {"ok", "err"})
            ~> (wf[t].state = "Completed")

\* The step removes the regular file at place k.
Removes(k) == fs[k] \in Contents /\ fs'[k] = "absent"
\* The step is handler task r leaving the given point of a delete with an
\* answer.
DeleteAnsweredAt(r, pc) ==
    /\ req[r].op = "delete" /\ req[r].pc = pc
    /\ req'[r] = Idle
    /\ last'.op = "delete"

\* C25 as stated, in the part a finite run refutes: a delete that loses the
\* race for a file is answered 404 or 500, so that a delete answered 400
\* has a directory at its path.
C25_Original ==
    (last.op = "delete" /\ last.status = 400) => Node(last.key) = "dir"

\* C25 as amended: with deletes and the expiration activity running side by
\* side every disappearance of a file is the work of exactly one of them:
\* a delete is answered 200 only by the step that removes the file, which
\* is still there; the activity counts a removal only in the step that
\* removes the file. Every other delete changes nothing and is answered
\* 404 at the existence check, which finds nothing; 400 at the second
\* check, which finds no regular file (a directory, or nothing once the
\* file was removed after the existence check); or 500 at the removal,
\* which finds no regular file any more.
C25_ConcurrentDeletesRemoveOnce ==
    [][/\ last'.op = "delete"
            => LET k == last'.key
               IN  /\ last'.status \in {200, 404, 400, 500}
                   /\ last'.status = 200
                        => /\ Removes(k)
                           /\ fs' = [fs EXCEPT ![k] = "absent"]
                           /\ \E r \in Slots : DeleteAnsweredAt(r, "remove")
                   /\ last'.status = 404
                        => /\ Node(k) = "absent" /\ fs' = fs
                           /\ req' = req
                   /\ last'.status = 400
                        => /\ Node(k) \notin Contents /\ fs' = fs
                           /\ \E r \in Slots : DeleteAnsweredAt(r, "is_file")
                   /\ last'.status = 500
                        => /\ Node(k) \notin Contents /\ fs' = fs
                           /\ \E r \in Slots : DeleteAnsweredAt(r, "remove")
       /\ \A k \in FsKeys :
            Removes(k)
                => \/ /\ last' = Response("delete", k, 200, "", NoExpire)
                      /\ wf' = wf
                   \/ /\ last' = Response("activity", k, 1, "", NoExpire)
                      /\ req' = req
                      /\ \E t \in TaskIds :
                           /\ TaskKey(t) = k
                           /\ wf'[t].removed = wf[t].removed + 1]_vars

\* C25's case: a delete passed its existence check, the file was removed by
\* another delete or by the activity, and its second check, finding nothing,
\* answered 400.
C25_Witness ==
    /\ last.op = "delete" /\ last.status = 400
    /\ Node(last.key) = "absent"

\* C26: a delete that is answered 404 (nothing at the path) or 400 (the
\* path is a directory) leaves the filesystem as it was: the step that
\* answers removes and creates nothing, and a directory named by the path
\* is still there after it.
C26_RejectedDeleteChangesNothing ==
    [][(last'.op = "delete" /\ last'.status \in {404, 400})
          => LET k == last'.key
             IN  /\ fs' = fs
                 /\ \A x \in FsKeys : Node(x) = "dir" => fs'[x] = "dir"
                 /\ last'.status = 404 => Node(k) = "absent"
                 /\ Node(k) = "dir" => (last'.status = 400 /\ fs'[k] = "dir")]_vars

\* C26's case: a delete of a path that names a directory has just been
\* answered 400, and the directory and the file in it are still there.
C26_Witness ==
    /\ last.op = "delete" /\ last.status = 400
    /\ fs[last.key] = "dir"
    /\ \E x \in FsKeys : parent(x) = last.key /\ fs[x] \in Contents

====
